---- MODULE Spec2Model ----
(***************************************************************************)
(* SQLiteRepository (bookkeeper/repository/sqlite_repository.py) bound to  *)
(* the record class Custom of tests/test_repository.  The store is the     *)
(* SQLite table the constructor creates; text is a sequence of character   *)
(* codes, so that the driver's adapters, the column affinities and the     *)
(* fromisoformat decoders are computed rather than assumed.                *)
(***************************************************************************)
EXTENDS Integers, Sequences, FiniteSets, TLC

\* ------------------------------------------------------------------ bounds
\* Most add() calls that reach the INSERT in one behaviour.
MaxAdds == 2
\* Most connections left unclosed at once before the collector must run.
MaxOpen == 1
\* Most fields of a record class whose table is being declared.
MaxFields == 2

\* -------------------------------------------------------------------- text
Pow10(k) == IF k = 0 THEN 1 ELSE IF k = 1 THEN 10 ELSE IF k = 2 THEN 100
            ELSE IF k = 3 THEN 1000 ELSE IF k = 4 THEN 10000 ELSE 100000

\* n as exactly w decimal digits, zero padded ('%04d', '%02d', '%06d').
Pad(n, w) == [i \in 1..w |-> 48 + ((n \div Pow10(w - i)) % 10)]

RECURSIVE DecimalText(_)
DecimalText(n) == IF n < 0 THEN <<45>> \o DecimalText(-n)
                  ELSE IF n < 10 THEN <<48 + n>>
                  ELSE DecimalText(n \div 10) \o <<48 + (n % 10)>>

IsDigit(c) == c \in 48..57
AllDigits(t) == Len(t) > 0 /\ \A i \in 1..Len(t) : IsDigit(t[i])
\* Does the text read as an integer literal (optional sign, digits only)?
LooksInteger(t) == IF Len(t) > 0 /\ t[1] = 45 THEN AllDigits(Tail(t)) ELSE AllDigits(t)

RECURSIVE DigitsValue(_)
DigitsValue(t) == IF Len(t) = 0 THEN 0
                  ELSE 10 * DigitsValue(SubSeq(t, 1, Len(t) - 1)) + (t[Len(t)] - 48)
TextToInt(t) == IF t[1] = 45 THEN 0 - DigitsValue(Tail(t)) ELSE DigitsValue(t)

\* ----------------------------------------------------------- Python values
\* A Python value is [t |-> its type's name, v |-> its content as integers].
PyInt(n) == [t |-> "int", v |-> <<n>>]
PyStr(s) == [t |-> "str", v |-> s]
PyDateTime(Y, M, D, h, m, s, us) == [t |-> "datetime", v |-> <<Y, M, D, h, m, s, us>>]
PyDate(Y, M, D) == [t |-> "date", v |-> <<Y, M, D>>]
PyNone == [t |-> "NoneType", v |-> <<>>]
\* What a decoder leaves in place of a value when it raises.
Raised == [t |-> "raise", v |-> <<>>]

\* ----------------------------------------------------------- stored values
\* A stored value is [c |-> SQLite storage class, v |-> content].
SqlInteger(n) == [c |-> "INTEGER", v |-> <<n>>]
SqlText(s) == [c |-> "TEXT", v |-> s]
SqlNull == [c |-> "NULL", v |-> <<>>]

\* date.isoformat(): YYYY-MM-DD
DateIso(d) == Pad(d[1], 4) \o <<45>> \o Pad(d[2], 2) \o <<45>> \o Pad(d[3], 2)
\* datetime.isoformat(" "): YYYY-MM-DD HH:MM:SS[.ffffff]
DateTimeIso(d) ==
    DateIso(d) \o <<32>> \o Pad(d[4], 2) \o <<58>> \o Pad(d[5], 2) \o <<58>> \o Pad(d[6], 2)
    \o (IF d[7] = 0 THEN <<>> ELSE <<46>> \o Pad(d[7], 6))

\* The driver's binding of one parameter: int and str as they are, date and
\* datetime through the default adapters, None as NULL.
Adapt(x) ==
    CASE x.t = "int" -> SqlInteger(x.v[1])
      [] x.t = "str" -> SqlText(x.v)
      [] x.t = "datetime" -> SqlText(DateTimeIso(x.v))
      [] x.t = "date" -> SqlText(DateIso(x.v))
      [] OTHER -> SqlNull

\* What the driver hands back for a stored value (no detect_types).
FromSql(x) ==
    CASE x.c = "INTEGER" -> PyInt(x.v[1])
      [] x.c = "TEXT" -> PyStr(x.v)
      [] OTHER -> PyNone

\* date.fromisoformat: YYYY-MM-DD or a ValueError; a TypeError for a non-str.
WellFormedDate(s) ==
    /\ Len(s) = 10
    /\ s[5] = 45 /\ s[8] = 45
    /\ \A i \in {1, 2, 3, 4, 6, 7, 9, 10} : IsDigit(s[i])
DateFromIso(x) ==
    IF x.t = "str" /\ WellFormedDate(x.v)
    THEN PyDate(DigitsValue(SubSeq(x.v, 1, 4)), DigitsValue(SubSeq(x.v, 6, 7)),
                DigitsValue(SubSeq(x.v, 9, 10)))
    ELSE Raised

\* datetime.fromisoformat: a date, optionally a time, optionally microseconds.
WellFormedTime(s) ==
    /\ Len(s) \in {19, 26}
    /\ s[11] = 32 /\ s[14] = 58 /\ s[17] = 58
    /\ \A i \in {12, 13, 15, 16, 18, 19} : IsDigit(s[i])
    /\ Len(s) = 26 => (s[20] = 46 /\ AllDigits(SubSeq(s, 21, 26)))
DateTimeFromIso(x) ==
    IF x.t # "str" \/ Len(x.v) < 10 \/ ~WellFormedDate(SubSeq(x.v, 1, 10)) THEN Raised
    ELSE LET d == DateFromIso(PyStr(SubSeq(x.v, 1, 10))).v IN
         IF Len(x.v) = 10 THEN PyDateTime(d[1], d[2], d[3], 0, 0, 0, 0)
         ELSE IF ~WellFormedTime(x.v) THEN Raised
         ELSE PyDateTime(d[1], d[2], d[3],
                         DigitsValue(SubSeq(x.v, 12, 13)), DigitsValue(SubSeq(x.v, 15, 16)),
                         DigitsValue(SubSeq(x.v, 18, 19)),
                         IF Len(x.v) = 26 THEN DigitsValue(SubSeq(x.v, 21, 26)) ELSE 0)

\* ------------------------------------------------------------------- types
\* The classes the annotations of a record class may name, with their bases.
Classes == {"str", "int", "float", "datetime", "date", "bool", "list",
            "NoneType", "UnionType", "object"}
Mro(c) == CASE c = "bool" -> {"bool", "int", "object"}
            [] c = "datetime" -> {"datetime", "date", "object"}
            [] OTHER -> {c, "object"}

\* An annotation: a class, a union X | Y (an instance of UnionType), or the
\* tuple get_args returns.
Class(c) == [kind |-> "class", name |-> c, args |-> {}]
Union(S) == [kind |-> "union", name |-> "", args |-> S]
TupleOf(S) == [kind |-> "tuple", name |-> "", args |-> S]

\* issubclass(c, T) for a class c: T a class, a union or a tuple of classes.
issubclass(c, T) == IF T.kind = "class" THEN T.name \in Mro(c)
                    ELSE \E a \in T.args : a \in Mro(c)
\* typing.get_args: the members of a union, () for a plain class.
get_args(T) == IF T.kind = "union" THEN TupleOf(T.args) ELSE TupleOf({})

_resolve_type(obj_type) ==
    LET t == IF issubclass("UnionType", obj_type) THEN get_args(obj_type) ELSE obj_type IN
    IF issubclass("str", t) THEN "TEXT"
    ELSE IF issubclass("int", t) THEN "INTEGER"
    ELSE IF issubclass("float", t) THEN "REAL"
    ELSE IF issubclass("datetime", t) THEN "TIMESTAMP"
    ELSE "TEXT"

\* ------------------------------------------------------------ record class
\* Custom's annotations without pk, in declaration order (self.fields).
fields == << [name |-> "field_int", type |-> Class("int")],
             [name |-> "field_str", type |-> Class("str")],
             [name |-> "field_datetime", type |-> Class("datetime")],
             [name |-> "field_date", type |-> Class("date")] >>
NFields == Len(fields)
FieldNames == {fields[i].name : i \in 1..NFields}
FieldIndex(n) == CHOOSE i \in 1..NFields : fields[i].name = n

\* [f"{name} {self._resolve_type(type)}" for name, type in self.fields.items()]
types_for_table(decl) == [i \in 1..Len(decl) |-> _resolve_type(decl[i])]

\* SQLite's affinity of a column from its declared type.
Affinity(declared) ==
    CASE declared = "INTEGER" -> "INTEGER"
      [] declared = "TEXT" -> "TEXT"
      [] declared = "REAL" -> "REAL"
      [] OTHER -> "NUMERIC"

\* The conversion a column's affinity applies to a value stored in it or
\* compared with it.
ApplyAffinity(aff, x) ==
    IF aff = "TEXT"
    THEN (IF x.c = "INTEGER" THEN SqlText(DecimalText(x.v[1])) ELSE x)
    ELSE (IF x.c = "TEXT" /\ LooksInteger(x.v) THEN SqlInteger(TextToInt(x.v)) ELSE x)

\* ------------------------------------------------------------------- state
VARIABLES
    decl,     \* the field types of the record class the constructor was given
    schema,   \* the column types of the table declared so far, in field order
    store,    \* the table: rowid (pk) -> the row's stored values, in field order
    objs,     \* the caller's record instances
    open,     \* connections opened by the repository and not closed
    last,     \* the last call: operation, arguments, outcome, returned value
    added,    \* the pks returned by add, in call order
    gone      \* the pks delete has removed

vars == <<decl, schema, store, objs, open, last, added, gone>>

\* The record instance the caller holds (and may build anew).
Objs == {1}

\* FIELD_INT, FILED_STR and the temporal fields of the tests' records.
FIELD_INT == 1337
FILED_STR == <<116, 101, 115, 116>>
FIELD_DATETIME == PyDateTime(2026, 11, 3, 1, 2, 3, 0)
FIELD_DATE == PyDate(2026, 11, 3)

\* The field values the caller builds records from.
Samples ==
    { <<PyInt(FIELD_INT), PyStr(FILED_STR), FIELD_DATETIME, FIELD_DATE>>,
      <<PyInt(0), PyStr(<<55>>), PyDateTime(2022, 1, 1, 0, 0, 0, 5), FIELD_DATE>>,
      <<PyInt(0), PyStr(FILED_STR), FIELD_DATETIME, PyDate(2022, 2, 2)>> }

\* custom_class(...): an instance with a pk attribute; and an object that has
\* none (the tests pass the int 0).
Record(pk, vals) == [haspk |-> TRUE, pk |-> pk, vals |-> vals]
Bare == [haspk |-> FALSE, pk |-> 0, vals |-> <<>>]

\* ---------------------------------------------------------------- the table
Max(S) == CHOOSE x \in S : \A y \in S : y <= x
\* INTEGER PRIMARY KEY without AUTOINCREMENT: one more than the largest rowid
\* in the table, 1 for an empty table.
NextRowid(tbl) == IF DOMAIN tbl = {} THEN 1 ELSE Max(DOMAIN tbl) + 1

\* The row a statement's field parameters become in the table's columns.
StoredRow(values) == [i \in 1..NFields |-> ApplyAffinity(Affinity(schema[i]), values[i])]

Insert(tbl, values) ==
    [k \in DOMAIN tbl \cup {NextRowid(tbl)} |->
        IF k \in DOMAIN tbl THEN tbl[k] ELSE StoredRow(values)]

\* Faulty variant: the scan walks the rowids downwards.
RECURSIVE ScanDescending(_)
ScanDescending(S) == IF S = {} THEN <<>>
                     ELSE LET k == Max(S) IN <<k>> \o ScanDescending(S \ {k})

\* The rowids in the order a table scan returns them.
RECURSIVE Scan(_)
Scan(S) == IF S = {} THEN <<>>
           ELSE LET k == CHOOSE x \in S : \A y \in S : x <= y IN <<k>> \o Scan(S \ {k})

\* column = ? with the parameter bound: the column's affinity is applied to
\* the parameter, and NULL equals nothing.
SqlEquals(i, stored, param) ==
    LET p == ApplyAffinity(Affinity(schema[i]), param) IN
    stored.c # "NULL" /\ p.c # "NULL" /\ stored = p

\* ------------------------------------------------------------ the row codec
\* values = [getattr(obj, x) for x in self.fields], as the driver binds them.
Encode(obj) == [i \in 1..NFields |-> Adapt(obj.vals[i])]

\* Faulty variant: the date branch of the decoder is missing.
DecodeSkipsDate(i, x) ==
    IF fields[i].type = Class("datetime") THEN DateTimeFromIso(x) ELSE x

DecodeField(i, x) ==
    LET a == IF fields[i].type = Class("datetime") THEN DateTimeFromIso(x) ELSE x IN
    IF fields[i].type = Class("date") THEN DateFromIso(a) ELSE a

_generate_object(pk, row) ==
    Record(pk, [i \in 1..NFields |-> DecodeField(i, FromSql(row[i]))])

\* A fromisoformat call raised while the object was being built.
DecodeRaised(obj) == \E i \in 1..NFields : obj.vals[i] = Raised

\* ---------------------------------------------------------------- the calls
NoWhere == [has |-> FALSE, cond |-> <<>>]
Where(c) == [has |-> TRUE, cond |-> c]

Call(op, obj, key, where, out, retpk, ret) ==
    [op |-> op, obj |-> obj, key |-> key, where |-> where,
     out |-> out, retpk |-> retpk, ret |-> ret]

\* get(pk): the SELECT by key and the decoded row, <<>> standing for None.
get(tbl, pk) == IF pk \in DOMAIN tbl THEN <<_generate_object(pk, tbl[pk])>> ELSE <<>>

\* The rows the SELECT of get_all returns for a where mapping, in scan order.
Matches(tbl, k, cond) ==
    \A n \in DOMAIN cond : SqlEquals(FieldIndex(n), tbl[k][FieldIndex(n)], Adapt(cond[n]))
get_all(tbl, where) ==
    LET keep == IF where.has THEN {k \in DOMAIN tbl : Matches(tbl, k, where.cond)}
                ELSE DOMAIN tbl
        ks == Scan(keep) IN
    [j \in 1..Len(ks) |-> _generate_object(ks[j], tbl[ks[j]])]

\* ------------------------------------------------------------- the caller
\* The keys the caller passes to get and delete, and gives to its records.
KeyArgs == (0 - 1)..MaxAdds
NewObjects == {Bare} \cup {Record(pk, s) : pk \in 0..MaxAdds, s \in Samples}

\* The where mappings the caller passes to get_all: None, and the values of
\* a record on some of its fields ({} among them).
WhereKeys == { {}, {"field_int"}, {"field_str"}, {"field_int", "field_str"},
               {"field_datetime", "field_date"} }
WhereArgs ==
    {NoWhere} \cup {Where([n \in K |-> s[FieldIndex(n)]]) : s \in Samples, K \in WhereKeys}

\* ------------------------------------------------------------------ actions
\* The caller builds a record instance (or takes an object without pk).
New(o, r) ==
    /\ objs' = [objs EXCEPT ![o] = r]
    /\ last' = Call("new", o, 0, NoWhere, "ok", 0, <<>>)
    /\ UNCHANGED <<decl, schema, store, open, added, gone>>

\* Faulty variant: add only asks that the pk attribute exists.
AddRejectsMissingOnly(obj) == ~obj.haspk

\* getattr(obj, 'pk', None) != 0
AddRejects(obj) == ~obj.haspk \/ obj.pk # 0

Add(o) ==
    LET obj == objs[o] IN
    IF AddRejects(obj)
    THEN /\ last' = Call("add", o, 0, NoWhere, "ValueError", 0, <<>>)
         /\ UNCHANGED <<decl, schema, store, objs, open, added, gone>>
    ELSE /\ open < MaxOpen
         /\ Len(added) < MaxAdds
         /\ LET lastrowid == NextRowid(store) IN
            /\ store' = Insert(store, Encode(obj))
            /\ objs' = [objs EXCEPT ![o].pk = lastrowid]
            /\ added' = Append(added, lastrowid)
            /\ last' = Call("add", o, 0, NoWhere, "ok", lastrowid, <<>>)
         /\ open' = open + 1
         /\ UNCHANGED <<decl, schema, gone>>

Get(pk) ==
    /\ open < MaxOpen
    /\ open' = open + 1
    /\ LET r == get(store, pk)
           out == IF Len(r) = 0 THEN "none"
                  ELSE IF DecodeRaised(r[1]) THEN "ValueError" ELSE "ok" IN
       last' = Call("get", 0, pk, NoWhere, out, 0, IF out = "ok" THEN r ELSE <<>>)
    /\ UNCHANGED <<decl, schema, store, objs, added, gone>>

\* The statement get_all builds is no statement for a where with no entry:
\* 'SELECT ... FROM t WHERE ' ends after WHERE.
Malformed(where) == where.has /\ DOMAIN where.cond = {}

GetAll(where) ==
    /\ open < MaxOpen
    /\ open' = open + 1
    /\ IF Malformed(where)
       THEN last' = Call("get_all", 0, 0, where, "OperationalError", 0, <<>>)
       ELSE LET r == get_all(store, where) IN
            IF \E j \in 1..Len(r) : DecodeRaised(r[j])
            THEN last' = Call("get_all", 0, 0, where, "ValueError", 0, <<>>)
            ELSE last' = Call("get_all", 0, 0, where, "ok", 0, r)
    /\ UNCHANGED <<decl, schema, store, objs, added, gone>>

\* getattr(obj, 'pk', None) is None
UpdateRejects(obj) == ~obj.haspk
\* Faulty variant: the rowcount test never sees zero.
RowcountNeverZero(tbl, pk) == 1
\* cur.rowcount of UPDATE or DELETE ... WHERE pk = ?
Rowcount(tbl, pk) == IF pk \in DOMAIN tbl THEN 1 ELSE 0

\* Faulty variant: UPDATE without its WHERE clause.
UpdateEveryRow(tbl, pk, values) == [k \in DOMAIN tbl |-> StoredRow(values)]
\* UPDATE t SET f1=?, ... WHERE pk = ?
UpdateRows(tbl, pk, values) ==
    [k \in DOMAIN tbl |-> IF k = pk THEN StoredRow(values) ELSE tbl[k]]

\* Faulty variant: DELETE without its WHERE clause.
DeleteEveryRow(tbl, pk) == <<>>
\* DELETE FROM t WHERE pk = ?
DeleteRows(tbl, pk) == [k \in DOMAIN tbl \ {pk} |-> tbl[k]]

Update(o) ==
    LET obj == objs[o] IN
    IF UpdateRejects(obj)
    THEN /\ last' = Call("update", o, 0, NoWhere, "ValueError", 0, <<>>)
         /\ UNCHANGED <<decl, schema, store, objs, open, added, gone>>
    ELSE /\ open < MaxOpen
         /\ open' = open + 1
         /\ IF Rowcount(store, obj.pk) = 0
            THEN /\ last' = Call("update", o, obj.pk, NoWhere, "ValueError", 0, <<>>)
                 /\ store' = store
            ELSE /\ last' = Call("update", o, obj.pk, NoWhere, "ok", 0, <<>>)
                 /\ store' = UpdateRows(store, obj.pk, Encode(obj))
         /\ UNCHANGED <<decl, schema, objs, added, gone>>

Delete(pk) ==
    /\ open < MaxOpen
    /\ open' = open + 1
    /\ IF Rowcount(store, pk) = 0
       THEN /\ last' = Call("delete", 0, pk, NoWhere, "ValueError", 0, <<>>)
            /\ UNCHANGED <<store, gone>>
       ELSE /\ last' = Call("delete", 0, pk, NoWhere, "ok", 0, <<>>)
            /\ store' = DeleteRows(store, pk)
            /\ gone' = gone \cup {pk}
    /\ UNCHANGED <<decl, schema, objs, added>>

\* The with block commits or rolls back and leaves the connection open; it
\* is closed when the interpreter reclaims the connection object.
Collect ==
    /\ open > 0
    /\ open' \in 0..(open - 1)
    /\ last' = Call("gc", 0, 0, NoWhere, "ok", 0, <<>>)
    /\ UNCHANGED <<decl, schema, store, objs, added, gone>>

\* ------------------------------------------------------------ specification
\* After SQLiteRepository(db_file, Custom) on a new file: the table is
\* declared and empty, the constructor's connection is closed or not yet,
\* and the caller holds a default record.
Init ==
    /\ decl = [i \in 1..NFields |-> fields[i].type]
    /\ schema = types_for_table(decl)
    /\ store = <<>>
    /\ objs = [o \in Objs |-> Record(0, <<PyInt(FIELD_INT), PyStr(FILED_STR),
                                          FIELD_DATETIME, FIELD_DATE>>)]
    /\ open \in 0..1
    /\ last = Call("init", 0, 0, NoWhere, "ok", 0, <<>>)
    /\ added = <<>>
    /\ gone = {}

Next ==
    \/ \E o \in Objs, r \in NewObjects : New(o, r)
    \/ \E o \in Objs : Add(o)
    \/ \E pk \in KeyArgs : Get(pk)
    \/ \E where \in WhereArgs : GetAll(where)
    \/ \E o \in Objs : Update(o)
    \/ \E pk \in KeyArgs : Delete(pk)
    \/ Collect

Spec == Init /\ [][Next]_vars

\* The constructor on any record class of at most MaxFields fields: the
\* column types of CREATE TABLE, computed field by field.
Annotations ==
    {Class(c) : c \in Classes}
    \cup {Union({a, b}) : a \in Classes \ {"UnionType", "NoneType", "str"},
                           b \in {"NoneType", "str"}}

InitDecl ==
    /\ decl \in UNION {[1..n -> Annotations] : n \in 1..MaxFields}
    /\ schema = <<>>
    /\ store = <<>>
    /\ objs = [o \in Objs |-> Bare]
    /\ open = 0
    /\ last = Call("new", 0, 0, NoWhere, "ok", 0, <<>>)
    /\ added = <<>>
    /\ gone = {}

CreateTable ==
    /\ schema = <<>>
    /\ last.op = "new"
    /\ schema' = types_for_table(decl)
    /\ open' = open + 1
    /\ last' = Call("init", 0, 0, NoWhere, "ok", 0, <<>>)
    /\ UNCHANGED <<decl, store, objs, added, gone>>

SpecDecl == InitDecl /\ [][CreateTable]_vars

\* ------------------------------------------------------------------ claims
\* What the step just taken was called with (read in the state before it).
Arg == objs[last'.obj]
Keys == DOMAIN store
SameRows(S) == \A k \in S : store'[k] = store[k]

\* C1: add of a record whose pk is 0 inserts exactly one row, sets the
\* record's pk to the new nonzero rowid N and returns N, and get(N) then
\* returns the record's field values with pk N.
C1_AddThenGet ==
    [][(last'.op = "add" /\ Arg.haspk /\ Arg.pk = 0) =>
        LET N == last'.retpk IN
        /\ last'.out = "ok"
        /\ N # 0 /\ N \notin Keys
        /\ DOMAIN store' = Keys \cup {N} /\ SameRows(Keys)
        /\ objs'[last'.obj] = Record(N, Arg.vals)
        /\ get(store', N) = <<Record(N, Arg.vals)>>]_vars

\* A second row was added from a record with microseconds and a numeral string.
C1_Witness ==
    /\ last.op = "add" /\ last.out = "ok" /\ last.retpk = 2
    /\ objs[last.obj].vals[2] = PyStr(<<55>>)
    /\ Cardinality(DOMAIN store) = 2

\* C2: add of an object whose pk is not 0, or that has no pk, raises
\* ValueError and changes neither the table nor the object.
C2_AddRejected ==
    [][(last'.op = "add" /\ (~Arg.haspk \/ Arg.pk # 0)) =>
        /\ last'.out = "ValueError"
        /\ store' = store /\ objs' = objs /\ added' = added]_vars

\* The rejected record carries a pk that add handed out and delete removed.
C2_Witness ==
    /\ last.op = "add" /\ last.out = "ValueError"
    /\ objs[last.obj].haspk
    /\ \E i \in 1..Len(added) : added[i] = objs[last.obj].pk
    /\ objs[last.obj].pk \in gone /\ objs[last.obj].pk \notin DOMAIN store

\* C3: update of a record whose pk is the key of no row raises ValueError and
\* leaves every get as it was.
C3_UpdateUnknown ==
    [][(last'.op = "update" /\ Arg.haspk /\ Arg.pk \notin Keys) =>
        /\ last'.out = "ValueError"
        /\ store' = store
        /\ \A k \in KeyArgs : get(store', k) = get(store, k)]_vars

\* The update named a deleted key while another row was in the table.
C3_Witness ==
    /\ last.op = "update" /\ last.out = "ValueError"
    /\ objs[last.obj].haspk /\ objs[last.obj].pk \in gone
    /\ DOMAIN store # {}

\* C4: delete of a present key removes exactly that row, after which get
\* returns None and a second delete raises ValueError without changing the
\* table; get of an absent key returns None.
C4_DeleteThenGet ==
    [][/\ (last'.op = "delete" /\ last'.key \in Keys) =>
            /\ last'.out = "ok"
            /\ DOMAIN store' = Keys \ {last'.key} /\ SameRows(Keys \ {last'.key})
            /\ get(store', last'.key) = <<>>
       /\ (last'.op = "delete" /\ last'.key \notin Keys) =>
            /\ last'.out = "ValueError"
            /\ store' = store
       /\ (last'.op = "get" /\ last'.key \notin Keys) =>
            /\ last'.out = "none" /\ last'.ret = <<>>]_vars

\* A second delete of a key, with another row still in the table.
C4_Witness ==
    /\ last.op = "delete" /\ last.out = "ValueError"
    /\ last.key \in gone /\ last.key \notin DOMAIN store
    /\ DOMAIN store # {}

\* The records get_all is claimed to return: those whose fields equal every
\* entry of the mapping, in the order of the table.
Satisfies(obj, cond) == \A n \in DOMAIN cond : obj.vals[FieldIndex(n)] = cond[n]
Claimed(tbl, where) ==
    LET ks == Scan({k \in DOMAIN tbl : Satisfies(get(tbl, k)[1], where.cond)}) IN
    [j \in 1..Len(ks) |-> get(tbl, ks[j])[1]]

\* C5: for every mapping of field names to values, the empty one included,
\* get_all returns without raising exactly the stored records that satisfy
\* every entry, in the order of the table.
C5_GetAllFilters ==
    last.op = "get_all" => (last.out = "ok" /\ last.ret = Claimed(store, last.where))

\* C6: with no delete so far, get_all() returns every added record once, its
\* pks being the pks add returned, in call order.
C6_InsertionOrder ==
    (last.op = "get_all" /\ ~last.where.has /\ gone = {}) =>
        /\ last.out = "ok"
        /\ [j \in 1..Len(last.ret) |-> last.ret[j].pk] = added

\* get_all() after every add the bound allows and an update, no delete.
C6_Witness ==
    /\ last.op = "get_all" /\ ~last.where.has /\ gone = {}
    /\ Len(added) = MaxAdds /\ Len(last.ret) = MaxAdds
    /\ last.ret[1].vals # last.ret[2].vals

\* C7: update of a record whose pk is present replaces that row's fields:
\* get returns the record's values with the same pk, the record is not
\* modified, and the keys and every other row stay as they were.
C7_UpdateReplaces ==
    [][(last'.op = "update" /\ Arg.haspk /\ Arg.pk \in Keys) =>
        /\ last'.out = "ok"
        /\ get(store', Arg.pk) = <<Record(Arg.pk, Arg.vals)>>
        /\ objs' = objs
        /\ DOMAIN store' = Keys /\ SameRows(Keys \ {Arg.pk})]_vars

\* An update changed one of two rows.
C7_Witness ==
    /\ last.op = "update" /\ last.out = "ok"
    /\ Cardinality(DOMAIN store) = 2
    /\ \E k \in DOMAIN store : store[k] # store[last.key]
    /\ store[last.key][2] = SqlText(<<55>>)

\* C8: a deleted pk stays gone: no later add hands it out again.
C8_GoneStaysGone == \A N \in gone : N \notin DOMAIN store /\ get(store, N) = <<>>

\* C9: between two operations the repository holds no open connection.
C9_ConnectionsReleased == open = 0

\* The column type the mapping is claimed to give an annotation.
ClaimedColumn(T) ==
    CASE T = Class("str") -> "TEXT"
      [] T = Class("int") -> "INTEGER"
      [] T = Class("float") -> "REAL"
      [] T = Class("datetime") -> "TIMESTAMP"
      [] OTHER -> "TEXT"

\* C10: str, int, float and datetime map to TEXT, INTEGER, REAL and
\* TIMESTAMP, and every other annotation (date, bool, list, a union) to TEXT.
C10_ResolveType ==
    \A i \in 1..Len(schema) : schema[i] = ClaimedColumn(decl[i])

====
